SPECIFICATION FairClock
CONSTANTS
    block = block
    timer = timer
    event = event
    Callbacks = {block}
    Order <- BlockOnly
    Kind <- MCKind
    StartMayFail = FALSE
    RpcMayFail = TRUE
CHECK_DEADLOCK FALSE
PROPERTY DeadFilterNoticed
