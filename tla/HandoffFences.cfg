SPECIFICATION Spec
CONSTANTS
    None = None
    a = a
    b = b
    c1 = c1
    g1 = g1
    g2 = g2
    g3 = g3
    Nodes = {a, b}
    Home = a
    Gens = {g1}
    Clients = {c1}
    Doors = {a, b}
    MaxCommits = 0
    MaxFences = 1
    Uses = {"fence", "selective"}
    Faults = {"crash"}
INVARIANTS
    TypeOK
    GrantedNeverOpens
