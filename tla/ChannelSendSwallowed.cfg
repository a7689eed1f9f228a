SPECIFICATION Spec
CONSTANTS
    Ctx = {c1}
    MsgLimit <- OneOneWay
    Modes = {"Send"}
    Window = 0
    ExitIfAsyncError = FALSE
    RetryAll = TRUE
    MaxRetry = 0
    MaxFaults = 1
    ThrottleMayTimeout = FALSE
    StartMayFail = FALSE
PROPERTIES SendReturnsDelivered
