SPECIFICATION Spec
CONSTANTS
    None = None
    b1 = b1
    m1 = m1
    t1 = t1
    t2 = t2
    p1 = p1
    p2 = p2
    Blobs = {b1}
    Manifests = {m1}
    Entries <- MCEntries
    Tags = {t1, t2}
    Publishers = {p1, p2}
INVARIANTS
    TypeOK
    PublishedWhole
PROPERTIES
    SteadyTagKeeps
SYMMETRY MCSymmetry
