CONSTANTS
    i1 = i1
    i2 = i2
    k1 = k1
    k2 = k2
    p1 = p1
    p2 = p2
    product = product
    NoKey = NoKey
    UnknownId = UnknownId
    Invoices <- MCTwoInvoices
    Keys <- MCKeys
    Codes <- MCCodes
    Need <- MCNeed
    Prints <- MCTwoPrints
    Requests <- MCSameKey
    InitialStock <- MCStockTwo
    Threshold = 2
    MaxRetries = 1
    Faults <- MCNoFaults
    Overlap = TRUE
SPECIFICATION Spec
INVARIANT SameKeyPaidOnce
CHECK_DEADLOCK FALSE
