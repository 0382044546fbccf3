CONSTANTS
    h1 = h1
    h2 = h2
    h3 = h3
    NoHandler = NoHandler
    Handlers <- OneHandler
    MaxOrders = 1
    MaxFaults = 1
SPECIFICATION FairSpec
PROPERTY PaidThenConfirmed

CHECK_DEADLOCK FALSE
