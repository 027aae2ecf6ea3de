----------------------------- MODULE MCWorkers ------------------------------
(* The thread pool for TLC: three threads. *)
EXTENDS Workers

CONSTANTS w1, w2, w3
=============================================================================
