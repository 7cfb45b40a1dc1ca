SPECIFICATION Spec
CONSTANTS
    None = None
    Clients = {c1, c2}
    MaxVMs = 2
    Spares = {2}
    MaxWrites = 2
    Slots = 1
    Kinds = {"archive", "image"}
    Reapers = {"idle"}
    Faults = {"crash", "bringup", "dump", "kill", "stop", "reattach", "write"}
SYMMETRY Symmetry
CONSTRAINT Clean
INVARIANTS TypeOK AckedKept SessionSeesAcked
PROPERTIES ServingNeverKilled
CHECK_DEADLOCK FALSE
