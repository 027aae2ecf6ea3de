-------------------------- MODULE MCLedgerAdvance --------------------------
(* A chain of four ledgers, of which the third is not there at first, and  *)
(* a ledger beside the second that the network leaves.                     *)
EXTENDS LedgerAdvance

Main == <<"a1", "b2", "b3", "b4">>

Side == <<"a1", "a2">>

Ledgers == {Main[s] : s \in DOMAIN Main} \cup {Side[s] : s \in DOMAIN Side}

Chains == [l \in Ledgers |->
    IF l = "a2" THEN Side ELSE SubSeq(Main, 1, CHOOSE s \in DOMAIN Main : Main[s] = l)]

EarlyLedgers == Ledgers \ {"b3"}

============================================================================
