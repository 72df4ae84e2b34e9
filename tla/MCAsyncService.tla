--------------------------- MODULE MCAsyncService ---------------------------
(* Instances of AsyncService for TLC.  Threads, addresses and calls are      *)
(* model values; they are interchangeable where the calls are all alike.     *)
EXTENDS AsyncService, TLC

CONSTANTS t1, t2, a1, a2, a3, a4, a5, c1, c2, c3

Alike == Permutations(Thread) \cup Permutations(Address)
=============================================================================
