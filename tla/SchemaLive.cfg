SPECIFICATION FairSpec
CONSTANTS
    None = None
    Clients = {c1}
    MaxVMs = 2
    Spares = {}
    MaxWrites = 1
    Slots = 1
    Kinds = {"freeze", "promote"}
    Reapers = {"idle", "untracked"}
    Faults = {"crash"}
PROPERTIES CheckoutEnds UnusedStops
CHECK_DEADLOCK FALSE
VIEW Relevant
