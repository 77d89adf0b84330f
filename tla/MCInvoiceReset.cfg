CONSTANTS
    r1 = r1
    r2 = r2
    r3 = r3
    Creates <- MCCreates
SPECIFICATION ResetSpec
INVARIANTS
    NumbersUnique
    CounterFollowsInvoices
