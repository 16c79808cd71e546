SPECIFICATION FairRecovery
CONSTANTS
    t1 = t1
    t2 = t2
    r1 = r1
    r2 = r2
    None = None
    Txs = {t1}
    Recs = {r1, r2}
    Price <- MCPrice
    CancelPrices = {None, 9, 10, 12}
    OldPrices <- TwoLeft
    Target <- NoReplacement
    Strategy <- OnePrice
    IsParity = TRUE
    RequiresSerialNonce = FALSE
    ReceiptLag = FALSE
    Faults = {"lost", "rpc"}
    MaxFaults = 1
    MaxAttempts = 1
    SharedLoop = FALSE
    NonceKnown = FALSE
INVARIANTS CancelledNeverHappens NewTransactionsSpared CancelBidsApart
PROPERTY CancelEnds
CHECK_DEADLOCK FALSE
