SPECIFICATION Spec
CONSTANTS
    NTasks = 1
    MaxAttempts = 2
    RetryDelay = 1
    MaxAge = 0
    w1 = w1
    w2 = w2
    r1 = r1
    r2 = r2
    Threads = {w1, w2}
    NoThread = NoThread
    Requests = {r1, r2}
    Upsets = {"serial", "chup", "commit", "crash", "switch"}
    MaxUpsets = 2
SYMMETRY Symmetry
INVARIANTS
    TypeOK
    OnlyAbandonedIntrude
    RedialBudget
    HeldRowIsCurrent
    InProgressIsOwned
PROPERTIES
    OneCall
    ImplementsLifecycle
CHECK_DEADLOCK FALSE
