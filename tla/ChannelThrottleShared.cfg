SPECIFICATION Spec
CONSTANTS
    Ctx = {c1, c2}
    MsgLimit <- OneOneWay
    Modes = {"SendAsync"}
    Window = 1
    ExitIfAsyncError = FALSE
    RetryAll = TRUE
    MaxRetry = 0
    MaxFaults = 0
    ThrottleMayTimeout = FALSE
    StartMayFail = FALSE
INVARIANTS BlockedOnlyWhenWindowFull
