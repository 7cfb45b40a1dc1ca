SPECIFICATION FairSpec
CONSTANTS
    None = None
    a = a
    b = b
    c1 = c1
    g1 = g1
    g2 = g2
    g3 = g3
    Nodes = {a, b}
    Home = a
    Gens = {g1}
    Clients = {}
    Doors = {a, b}
    MaxCommits = 0
    MaxFences = 0
    Uses = {}
    Faults = {"crash", "abort", "loss"}
PROPERTIES
    HandoffFinishes
