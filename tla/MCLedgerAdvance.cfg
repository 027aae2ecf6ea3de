SPECIFICATION FairSpec
CONSTANTS
    Ledger <- Ledgers
    chain <- Chains
    None = None
    MaxLedgerGap = 2
    LedgerHistory = 1
    FetchSize = 1
    CanDelete = 4
    Early <- EarlyLedgers
    MaxEvents = 1
INVARIANTS
    AdvanceIsNotLost
PROPERTIES
    ImplementsPublishedStream
    
