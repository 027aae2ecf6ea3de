----------------------------- MODULE MCJobQueue -----------------------------
(* The job queue for TLC: the clients' type, that of the path updates, and *)
(* above both a type of one job at a time (jtTXN_DATA).                    *)
EXTENDS JobQueue

CONSTANTS w1, w2, c1

Types == {1, 2, 3}
Limits == [t \in Types |-> IF t = 3 THEN 1 ELSE 2]
=============================================================================
