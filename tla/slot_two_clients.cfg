CONSTANTS
    h1 = h1
    h2 = h2
    c1 = c1
    c2 = c2
    r1 = r1
    r2 = r2
    NoHandler = NoHandler
    Free = Free
    Gone = Gone
    Handlers <- TwoHandlers
    Clients <- TwoClients
    Starts <- OneStart
    Duration = 2
    Rows <- TwoRows
    WeeklyLimit = 2
    Asked <- Offered
    MaxFaults = 0
    MaxStalls = 0
    MaxStale = 0
SPECIFICATION Spec
INVARIANT NoDoubleBooking
SYMMETRY Interchangeable
CHECK_DEADLOCK FALSE
