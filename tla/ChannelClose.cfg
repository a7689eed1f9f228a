SPECIFICATION FairSpec
CONSTANTS
    Ctx = {c1}
    MsgLimit <- OneEach
    Modes = {"SendAsync"}
    Window = 1
    ExitIfAsyncError = FALSE
    RetryAll = TRUE
    MaxRetry = 0
    MaxFaults = 0
    ThrottleMayTimeout = FALSE
    StartMayFail = FALSE
INVARIANTS CloseIsSafe
PROPERTIES CloseCompletes
