SPECIFICATION FairSpec
CONSTANTS
    Ledger <- Ledgers
    seqOf <- Numbers
    Caller <- Callers
    Master = {"advance"}
    Calls <- CallsMade
    Job = {j1, j2}
    None = None
    MaxCalls = 3
    MaxCrashes = 1
INVARIANTS
    OneSaverPerSequence
    EntriesHaveTransactions
PROPERTIES
    EverySaveEnds
CHECK_DEADLOCK FALSE
