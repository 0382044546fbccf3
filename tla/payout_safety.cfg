CONSTANTS
    h1 = h1
    h2 = h2
    h3 = h3
    k1 = k1
    k2 = k2
    NoHandler = NoHandler
    Handlers <- TwoHandlers
    Keys <- TwoKeys
    Amount <- Amounts
    Fee = 1
    Credit = 3
    DailyCountMax = 3
    PspConfigured = TRUE
    MaxCredits = 1
    MaxDisputes = 0
    MaxReleases = 0
    MaxFaults = 1
    MaxStalls = 1
SPECIFICATION Spec
INVARIANTS TypeOK  KeyDebitedOnce
 
SYMMETRY HandlerSymmetry
CHECK_DEADLOCK FALSE
