CONSTANTS
    i1 = i1
    i2 = i2
    k1 = k1
    k2 = k2
    p1 = p1
    p2 = p2
    product = product
    NoKey = NoKey
    UnknownId = UnknownId
    Invoices <- MCTwoInvoices
    Keys <- MCKeys
    Codes <- MCCodes
    Need <- MCNeed
    Prints <- MCTwoPrints
    Requests <- MCRequests
    InitialStock <- MCStockTwo
    Threshold = 1
    MaxRetries = 1
    Faults <- MCAllFaults
    Overlap = TRUE
SPECIFICATION Spec
SYMMETRY MCSymmetry
INVARIANTS
    TypeOK
    ClosedIsPaid
    OnePrinter
    StoredIsTrue
    StockAccountsForClosed
CHECK_DEADLOCK FALSE
