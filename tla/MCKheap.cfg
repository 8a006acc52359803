SPECIFICATION FairSpec
CONSTANTS
    HeapStart = 8
    HeapSize  = 30
    Requests <- MCRequests
    Words    <- MCWords
    Garbage  <- MCGarbage
INVARIANTS
    Tiling
    Accounted
    Coalesced
    DataIntact
    BoundedWaste
    FirstFit
    NoPanic
    StatsExact
PROPERTIES
    HeapContractHolds
    KmallocReturns
