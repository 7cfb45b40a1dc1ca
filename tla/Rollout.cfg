SPECIFICATION Spec
CONSTANTS
    None = None
    eu = eu
    us = us
    ap = ap
    l1 = l1
    l2 = l2
    RegionOrder <- MCOrder
    Elsewhere = {ap}
    Was <- MCWas
    Size <- MCSize
    Minimum = 2
    Drain = 1
    Bake = 2
    Gap = 1
    Ingress = {l1, l2}
    MaxOps = 2
    Faults = {"crash", "error", "rollback"}
SYMMETRY MCIngresses
VIEW MCView
INVARIANTS
    TypeOK
    CapacityKept
    DrainedBeforeCreate
    CreatedOnce
    SettledServes
PROPERTIES
    BakeIsObserved
