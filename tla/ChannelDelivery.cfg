SPECIFICATION Spec
CONSTANTS
    Ctx = {c1}
    MsgLimit <- TwoOneWay
    Modes = {"SendAsync"}
    Window = 0
    ExitIfAsyncError = FALSE
    RetryAll = FALSE
    MaxRetry = 1
    MaxFaults = 1
    ThrottleMayTimeout = FALSE
    StartMayFail = FALSE
CHECK_DEADLOCK FALSE
INVARIANTS TypeOK ExactlyOnce AckSound CloseIsSafe NoDuplicateKey
PROPERTIES ImplementsReliableLink
