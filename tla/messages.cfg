CONSTANTS
    p1 = p1
    p2 = p2
    row1 = row1
    row2 = row2
    j1 = j1
    j2 = j2
    Processes <- TwoProcesses
    Starters <- OneStarter
    LastReminder = 1
    ScheduleRows <- TwoRows
    MaxMishaps = 1
    Jobs <- TwoJobs
    Attempts = 3
    MaxRetries = 1
    MaxLapses = 1
    Agents <- TwoProcesses
    MaxChanges = 4
SPECIFICATION MessagesSpec
INVARIANTS MessagesTypeOK PushedOnce NoOrphan 
PROPERTIES MovesInOrder DueIsResolved JobsEnd
CHECK_DEADLOCK FALSE
