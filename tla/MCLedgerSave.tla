---------------------------- MODULE MCLedgerSave ----------------------------
(* Two ledgers of one sequence number.  The advance job saves what it      *)
(* publishes synchronously and history in jobs, the ledger cleaner saves   *)
(* synchronously, and clients' requests save in jobs.                      *)
EXTENDS LedgerSave

Ledgers == {<<1, "a">>, <<1, "b">>}

Numbers == [l \in Ledgers |-> l[1]]

Callers == {"advance", "cleaner", "rpc"}

CallsMade == {<<"advance", TRUE>>, <<"advance", FALSE>>, <<"cleaner", TRUE>>, <<"rpc", FALSE>>}

=============================================================================
