-------------------------- MODULE PublishedStream --------------------------
(* What the ledger master promises the subscribers of the ledger stream,   *)
(* as sequence numbers only: the server follows the ledgers the network    *)
(* validates, and publishes every one of them in turn unless it has fallen *)
(* more than MAX_LEDGER_GAP behind.  Zero: none since the server started.  *)
EXTENDS Naturals

CONSTANT MaxLedgerGap

VARIABLES valid, published

streamVars == <<valid, published>>

StreamInit == valid = 0 /\ published = 0

(* The server starts from a ledger it has. *)
Load == valid = 0 /\ published = 0 /\ valid' \in Nat /\ valid' > 0 /\ published' = valid'

(* checkAccept *)
Validated == valid' \in Nat /\ valid' > valid /\ UNCHANGED published

(* The first validated ledger is published as soon as it is saved. *)
PublishFirst == published = 0 /\ valid > 0 /\ published' = valid /\ UNCHANGED valid

PublishNext ==
    published > 0 /\ published < valid /\ published' = published + 1 /\ UNCHANGED valid

SkipGap == valid > published + MaxLedgerGap /\ published' = valid /\ UNCHANGED valid

Restart == valid' = 0 /\ published' = 0

StreamNext == Load \/ Validated \/ PublishFirst \/ PublishNext \/ SkipGap \/ Restart

StreamSpec == StreamInit /\ [][StreamNext]_streamVars

============================================================================
