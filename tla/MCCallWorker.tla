---------------------------- MODULE MCCallWorker ----------------------------
(* Small instances of CallWorker for TLC; see the README for the bounds. *)
EXTENDS CallWorker, TLC

CONSTANTS w1, w2, r1, r2

Symmetry == Permutations(Threads) \cup Permutations(Requests)
=============================================================================
