SPECIFICATION Spec
CONSTANTS
    t1 = t1
    t2 = t2
    t3 = t3
    None = None
    Txs = {t1, t2, t3}
    Price <- MCPrice
    Target <- NoReplacement
    Strategy <- DefaultThenFixed
    IsParity = TRUE
    RequiresSerialNonce = FALSE
    ReceiptLag = TRUE
    Faults = {"reject", "rpc", "lost"}
    MaxFaults = 1
    MaxAttempts = 1
    SharedLoop = FALSE
    NonceKnown = FALSE
CHECK_DEADLOCK FALSE
INVARIANT NoNonceClash
