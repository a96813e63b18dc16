CONSTANTS
    Capacity = 1
    MaxInput = 4
    MaxOwed = 2
SPECIFICATION FairSpec
INVARIANTS
    SuccessIsComplete
    IInv
PROPERTIES
    CallReturns
CHECK_DEADLOCK FALSE
