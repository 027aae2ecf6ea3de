--------------------------- MODULE MCTxSetAcquire ---------------------------
(* Fetching of transaction sets for TLC. *)
EXTENDS TxSetAcquire

CONSTANTS p1, p2

P(root, parts, junk) == [root |-> root, parts |-> parts, junk |-> junk]
Packets == {P("bad", {}, FALSE), P("none", {p1}, FALSE),
            P("good", {p1}, TRUE), P("good", {p1, p2}, FALSE)}
=============================================================================
