SPECIFICATION Spec
CONSTANTS
    NTasks = 1
    MaxAttempts = 2
    RetryDelay = 1
    MaxAge = 1
    w1 = w1
    w2 = w2
    r1 = r1
    r2 = r2
    Threads = {w1, w2}
    NoThread = NoThread
    Requests = {}
    Upsets = {"switch"}
    MaxUpsets = 2
INVARIANTS
    SingleChannel
CHECK_DEADLOCK FALSE
