SPECIFICATION Spec
CONSTANTS
    t1 = t1
    t2 = t2
    t3 = t3
    None = None
    Txs = {t1, t2}
    Price <- MCPrice
    Target <- NoReplacement
    Strategy <- Bidding
    IsParity = FALSE
    RequiresSerialNonce = TRUE
    ReceiptLag = FALSE
    Faults = {}
    MaxFaults = 0
    MaxAttempts = 1
    SharedLoop = FALSE
    NonceKnown = FALSE
CHECK_DEADLOCK FALSE
INVARIANT NoNonceClash
