SPECIFICATION HistSpec
CONSTANTS
    Ctx = {c1}
    MsgLimit <- OneOneWay
    Modes = {"Send"}
    Window = 0
    ExitIfAsyncError = TRUE
    RetryAll = TRUE
    MaxRetry = 0
    MaxFaults = 0
    ThrottleMayTimeout = FALSE
    StartMayFail = FALSE
PROPERTIES SendReturnsBuffered
