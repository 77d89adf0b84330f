CONSTANTS
    a = a
    b = b
    r1 = r1
    r2 = r2
    Codes <- MCCodes
    Reqs <- MCReqs
    Lists <- MCLists
    MaxStock = 2
SPECIFICATION FairSpec
INVARIANTS
    TypeOK
    ReservationCovered
    StockConserved
PROPERTIES
    ImplementsLedger
    EveryRequestAnswered
