SPECIFICATION Spec
CONSTANTS
    Ctx = {c1}
    MsgLimit <- TwoOneWay
    Modes = {"SendAsync"}
    Window = 0
    ExitIfAsyncError = FALSE
    RetryAll = TRUE
    MaxRetry = 1
    MaxFaults = 1
    ThrottleMayTimeout = FALSE
    StartMayFail = TRUE
CHECK_DEADLOCK FALSE
INVARIANTS CloseIsSafe NeverTakenTwice
