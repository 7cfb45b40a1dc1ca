SPECIFICATION Spec
CONSTANTS
    None = None
    Clients = {c1, c2}
    MaxVMs = 2
    Spares = {2}
    MaxWrites = 2
    Slots = 1
    Kinds = {"archive", "compact", "image", "promote"}
    Reapers = {"idle"}
    Faults = {"crash", "bringup", "dump", "kill", "stop"}
SYMMETRY Symmetry
INVARIANT OverlapHarmless
CHECK_DEADLOCK FALSE
