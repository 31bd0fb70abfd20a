--------------------------- MODULE MCSyncEngine ----------------------------
(* Small instances of SyncEngine for TLC. *)
EXTENDS SyncEngine, Sequences

\* Up to three places: 30 and 60 percent of the ebook are 20 and 70 percent
\* of the audiobook.
MCPct == [c \in Clients |-> [p \in Pos |->
             (IF c = Abs THEN <<0, 2000, 7000>> ELSE <<0, 3000, 6000>>)[p + 1]]]
=============================================================================
