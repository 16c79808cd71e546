SPECIFICATION Spec
CONSTANTS
    t1 = t1
    t2 = t2
    t3 = t3
    None = None
    Txs = {t1, t2}
    Price <- MCPrice
    Target <- Replacement
    Strategy <- BidUp
    IsParity = FALSE
    RequiresSerialNonce = FALSE
    ReceiptLag = FALSE
    Faults = {}
    MaxFaults = 0
    MaxAttempts = 10
    SharedLoop = TRUE
    NonceKnown = TRUE
CHECK_DEADLOCK FALSE
INVARIANT SuccessIsReported
