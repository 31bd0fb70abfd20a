--------------------------- MODULE MCPairingInbox ---------------------------
(* Requests are alike. *)
EXTENDS PairingInbox, TLC

Alike == Permutations(Requests)
=============================================================================
