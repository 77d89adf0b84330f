CONSTANTS
    i1 = i1
    i2 = i2
    k1 = k1
    k2 = k2
    p1 = p1
    p2 = p2
    product = product
    NoKey = NoKey
    UnknownId = UnknownId
    Invoices <- MCOneInvoice
    Keys <- MCKeys
    Codes <- MCCodes
    Need <- MCNeed
    Prints <- MCTwoPrints
    Requests <- MCSameKey
    InitialStock <- MCStockOne
    Threshold = 1
    MaxRetries = 1
    Faults <- MCNetAndTimeout
    Overlap = TRUE
SPECIFICATION FairSpec
PROPERTY EveryPrintAnswered
CHECK_DEADLOCK FALSE
