SPECIFICATION Spec
CONSTANTS
    t1 = t1
    t2 = t2
    t3 = t3
    None = None
    Txs = {t1, t2, t3}
    Price <- MCPrice
    Target <- OneReplacement
    Strategy <- Bidding
    IsParity = FALSE
    RequiresSerialNonce = TRUE
    ReceiptLag = TRUE
    Faults = {"reject", "lost", "drop", "foreign", "rpc"}
    MaxFaults = 1
    MaxAttempts = 1
    SharedLoop = FALSE
    NonceKnown = TRUE
CHECK_DEADLOCK FALSE
INVARIANT TypeInv
INVARIANT ReceiptIsSound
INVARIANT NoNonceClash
PROPERTY ReplacedStaysSilent
PROPERTY ReservesNonces
