--------------------------- MODULE MCReadingTracker ---------------------------
(* A book and two books at Hardcover, one of them with an edition.         *)
EXTENDS ReadingTracker, TLC

Symmetry == Permutations(Ops)
=============================================================================
