CONSTANTS
    h1 = h1
    h2 = h2
    c1 = c1
    c2 = c2
    r1 = r1
    r2 = r2
    NoHandler = NoHandler
    Free = Free
    Gone = Gone
    Handlers <- TwoHandlers
    Clients <- OneClient
    Starts <- TwoStarts
    Duration = 2
    Rows <- TwoRows
    WeeklyLimit = 2
    Asked <- Offered
    MaxFaults = 1
    MaxStalls = 1
    MaxStale = 1
SPECIFICATION Spec
INVARIANTS TypeOK  
SYMMETRY Interchangeable
CHECK_DEADLOCK FALSE
