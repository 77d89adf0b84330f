CONSTANTS
    i1 = i1
    i2 = i2
    k1 = k1
    k2 = k2
    p1 = p1
    p2 = p2
    product = product
    a = a
    b = b
    NoCode = NoCode
    TypedCodes <- MCTyped
    NoKey = NoKey
    NoPrint = NoPrint
    UnknownId = UnknownId
    Invoices <- MCInvoices
    Keys <- MCKeys
    Codes <- MCCodes
    Need <- MCNeed
    Prints <- MCPrints
    Requests <- MCRequests
    InitialStock <- MCStock
    Threshold = 1
    MaxRetries = 1
    MaxLoads = 2
    Faults <- MCFaults
    Overlap = TRUE
SPECIFICATION WebSpec
SYMMETRY MCSymmetry
INVARIANTS
    PaidOnceOnPage
    SavedIsListed
    RestingPageIsTrue
PROPERTIES
    RefusalLeavesOpenOnPage
    NeverReopened
CHECK_DEADLOCK FALSE
