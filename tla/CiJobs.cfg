SPECIFICATION Spec
CONSTANTS
    None = None
    j1 = j1
    j2 = j2
    b1 = b1
    b2 = b2
    w1 = w1
    w2 = w2
    o1 = o1
    Jobs = {j1}
    Needs <- MCNeeds
    Boots = {b1, b2}
    Workers = {w1, w2}
    BootOf <- MCBootOf
    Retirees = {}
    Replaced = {b1}
    Cordons = {o1}
    MaxFailures = 1
    MaxDeliveries = 2
    Faults = {"crash", "redeliver", "timeout", "runner", "plan", "database", "wait"}
INVARIANTS
    TypeOK
    OneExecution
    DrainedIsQuiet
    RetiredIsIdle
PROPERTIES
    CancelSticks
CHECK_DEADLOCK FALSE
