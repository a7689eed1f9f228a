SPECIFICATION Spec
CONSTANTS
    Ctx = {c1}
    MsgLimit <- OneOneWay
    Modes = {"Send"}
    Window = 0
    ExitIfAsyncError = TRUE
    RetryAll = TRUE
    MaxRetry = 0
    MaxFaults = 1
    ThrottleMayTimeout = FALSE
    StartMayFail = TRUE
CHECK_DEADLOCK FALSE
PROPERTIES SendReturnsDelivered
