SPECIFICATION LifecycleSpec
CONSTANTS
    block = block
    timer = timer
    event = event
    Callbacks = {block, timer, event}
    Order <- AllThree
    Kind <- MCKind
    StartMayFail = TRUE
    RpcMayFail = TRUE
CHECK_DEADLOCK FALSE
INVARIANT LifecycleTypeInv
INVARIANT OneMoreAtMost
INVARIANT AwaitedBeforeShutdown
