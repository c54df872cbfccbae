--------------------------- MODULE MCReviewCenter ---------------------------
(* TLC instance of ReviewCenter: one service with one device. *)
EXTENDS ReviewCenter, TLC

CONSTANTS s1, d1, c1, c2

OneParent == [d \in {d1} |-> s1]
Symmetry == Permutations({c1, c2})
=============================================================================
