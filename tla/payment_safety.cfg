CONSTANTS
    h1 = h1
    h2 = h2
    h3 = h3
    NoHandler = NoHandler
    Handlers <- TwoHandlers
    MaxOrders = 2
    MaxFaults = 1
SPECIFICATION FairSpec
INVARIANTS TypeOK LedgerOnce
PROPERTIES ImplementsEscrow 
CHECK_DEADLOCK FALSE
