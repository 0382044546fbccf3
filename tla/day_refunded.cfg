CONSTANTS
    h1 = h1
    h2 = h2
    Handlers <- TwoHandlers
    Price = 1
    Refunds <- OneRefund
    MaxDecisions = 1
    MaxFaults = 0
SPECIFICATION Spec
PROPERTY RefundedNotCompleted
SYMMETRY Interchangeable
CHECK_DEADLOCK FALSE
