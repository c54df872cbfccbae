SPECIFICATION FairSpec
CONSTANTS
    NTasks = 2
    MaxAttempts = 2
    RetryDelay = 1
    MaxAge = 1
    w1 = w1
    w2 = w2
    r1 = r1
    r2 = r2
    Threads = {w1}
    NoThread = NoThread
    Requests = {}
    Upsets = {"serial", "chup", "commit", "crash", "switch"}
    MaxUpsets = 2
INVARIANTS
    InProgressIsOwned
PROPERTIES
    ImplementsLifecycle
    EveryTaskSettles
    InProgressEnds
    StopIsObeyed
CHECK_DEADLOCK FALSE
