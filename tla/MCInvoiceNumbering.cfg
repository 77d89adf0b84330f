CONSTANTS
    r1 = r1
    r2 = r2
    r3 = r3
    r4 = r4
    Creates <- MCCreates
SPECIFICATION FairSpec
INVARIANTS
    TypeOK
    GapFree
PROPERTIES
    ImplementsRegister
    EveryCreateReplied
CHECK_DEADLOCK FALSE
