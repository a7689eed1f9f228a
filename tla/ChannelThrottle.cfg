SPECIFICATION Spec
CONSTANTS
    Ctx = {c1}
    MsgLimit <- ThreeOneWay
    Modes = {"SendAsync", "SendAsyncThrottled", "Send"}
    Window = 1
    ExitIfAsyncError = TRUE
    RetryAll = TRUE
    MaxRetry = 0
    MaxFaults = 1
    ThrottleMayTimeout = TRUE
    StartMayFail = FALSE
CHECK_DEADLOCK FALSE
INVARIANTS FlyingBounded BlockedOnlyWhenWindowFull CloseIsSafe
PROPERTIES SendReturnsDelivered
