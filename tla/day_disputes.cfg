CONSTANTS
    h1 = h1
    h2 = h2
    Handlers <- TwoHandlers
    Price = 1
    Refunds <- OneRefund
    MaxDecisions = 2
    MaxFaults = 1
SPECIFICATION FairSpec
INVARIANTS TypeOK HeldWithDispute CreditedOnce
PROPERTY OverdueLeavesStarted
CHECK_DEADLOCK FALSE
