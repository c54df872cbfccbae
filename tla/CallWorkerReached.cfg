SPECIFICATION Spec
CONSTANTS
    NTasks = 1
    MaxAttempts = 2
    RetryDelay = 1
    MaxAge = 0
    w1 = w1
    w2 = w2
    r1 = r1
    r2 = r2
    Threads = {w1}
    NoThread = NoThread
    Requests = {}
    Upsets = {"serial"}
    MaxUpsets = 1
PROPERTIES
    ReachedIsNotRequeued
CHECK_DEADLOCK FALSE
