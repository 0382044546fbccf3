CONSTANTS
    h1 = h1
    h2 = h2
    h3 = h3
    k1 = k1
    k2 = k2
    NoHandler = NoHandler
    Handlers <- OneHandler
    Keys <- TwoKeys
    Amount <- Amounts
    Fee = 1
    Credit = 6
    DailyCountMax = 3
    PspConfigured = FALSE
    MaxCredits = 1
    MaxDisputes = 1
    MaxReleases = 1
    MaxFaults = 2
    MaxStalls = 0
SPECIFICATION FairSpec
PROPERTIES  LockFreed
CHECK_DEADLOCK FALSE
