SPECIFICATION FairLifecycle
CONSTANTS
    block = block
    timer = timer
    event = event
    Callbacks = {block, event}
    Order <- BlockAndEvent
    Kind <- MCKind
    StartMayFail = FALSE
    RpcMayFail = TRUE
CHECK_DEADLOCK FALSE
PROPERTIES Stops EventServed
INVARIANT NoLostEvent
