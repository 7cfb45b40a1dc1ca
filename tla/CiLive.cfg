SPECIFICATION FairSpec
CONSTANTS
    None = None
    j1 = j1
    j2 = j2
    b1 = b1
    b2 = b2
    w1 = w1
    w2 = w2
    o1 = o1
    Jobs = {j1, j2}
    Needs <- MCNeeds
    Boots = {b1, b2}
    Workers = {w1, w2}
    BootOf <- MCBootOf
    Retirees = {b1, b2}
    Replaced = {}
    Cordons = {}
    MaxFailures = 1
    MaxDeliveries = 2
    Faults = {"publish"}
INVARIANTS
    SurvivorRemains
PROPERTIES
    RunSettles
CHECK_DEADLOCK FALSE
