----------------------------- MODULE MCCallRate -----------------------------
(* Instances of CallRate for TLC.                                           *)
EXTENDS CallRate, TLC

CONSTANTS c1, c2, c3, c4

Alike == Permutations(Call)
=============================================================================
