--------------------------- MODULE MCOnlineDelete ---------------------------
(* Online deletion for TLC.  Each node leaves and comes back: node 2 with   *)
(* the ledger the second rotation is for, node 1 with the one after it.    *)
EXTENDS OnlineDelete

States == <<{1, 2}, {1}, {2}, {1, 2}>>
=============================================================================
