SPECIFICATION FairThreads
CONSTANTS
    t1 = t1
    t2 = t2
    t3 = t3
    None = None
    Txs = {t1, t2}
    Price <- MCPrice
    Target <- Replacement
    Strategy <- BidUp
    IsParity = FALSE
    RequiresSerialNonce = FALSE
    ReceiptLag = FALSE
    Faults = {"reject", "foreign"}
    MaxFaults = 1
    MaxAttempts = 2
    SharedLoop = FALSE
    NonceKnown = TRUE
CHECK_DEADLOCK FALSE
INVARIANT FailureIsFinal
INVARIANT WatchedBidsGrow
PROPERTY Ends
