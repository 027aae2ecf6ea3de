------------------------- MODULE MCTransactionBatch -------------------------
(* Instances of TransactionBatch for TLC: b follows a in one account's     *)
(* sequence.                                                               *)
EXTENDS TransactionBatch

CONSTANTS a, b

MCFollowers == [t \in Tx |-> IF t = a THEN {b} \cap Tx ELSE {}]
=============================================================================
