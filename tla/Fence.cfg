SPECIFICATION FairSpec
CONSTANTS
    c1 = c1
    c2 = c2
    Clients <- MCClients
    MaxLsn = 3
INVARIANTS
    TypeOK
    ReadyBarrierCovers
    ReadyIsClosed
    FenceProgress
PROPERTIES
    ReadyBarrierFixed
    OperationEnds
