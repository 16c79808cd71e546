SPECIFICATION Spec
CONSTANTS
    t1 = t1
    t2 = t2
    t3 = t3
    None = None
    Txs = {t1, t2, t3}
    Price <- MCPrice
    Target <- OneReplacement
    Strategy <- Bidding
    IsParity = FALSE
    RequiresSerialNonce = TRUE
    ReceiptLag = FALSE
    Faults = {"reject"}
    MaxFaults = 1
    MaxAttempts = 1
    SharedLoop = TRUE
    NonceKnown = FALSE
CHECK_DEADLOCK FALSE
INVARIANT NoNonceClash
PROPERTY SufficientBid
