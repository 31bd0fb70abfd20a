--------------------------- MODULE MCKosyncServer ---------------------------
(* The one file holds the content of h1; threads and devices are alike. *)
EXTENDS KosyncServer, TLC

CONSTANTS h1

MCHashOf == [f \in Files |-> h1]
Alike    == Permutations(Threads) \cup Permutations(Devices)
=============================================================================
