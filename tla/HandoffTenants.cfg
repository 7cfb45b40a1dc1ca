SPECIFICATION Spec
CONSTANTS
    None = None
    a = a
    b = b
    c1 = c1
    g1 = g1
    g2 = g2
    g3 = g3
    Nodes = {a, b}
    Home = a
    Gens = {g1}
    Clients = {c1}
    Doors = {a, b}
    MaxCommits = 1
    MaxFences = 0
    Uses = {"standby"}
    Faults = {"crash", "abort", "loss"}
INVARIANTS
    NoSplitBrain
    AckedSurvive
    ActivatedIsBound
    OneCreatePerCandidate
PROPERTY RefinesLineage
