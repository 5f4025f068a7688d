\* Late steps, a set clock, power edges and locks against the deadlines.
SPECIFICATION FairSpec
CONSTANTS
    Interval = 2
    Block <- MCBlock
    Period <- MCPeriod
    LoadTime = 1
    Work <- MCWork
    MaxOver = 1
    Settings <- MCSettings
    Quick = 1
    Disturbed = 3
    MaxSettings = 1
    MaxSteps = 11
CHECK_DEADLOCK FALSE
INVARIANTS
    DeadlinesKept
    KeepsSchedule
    ProcessTimeCovers
PROPERTIES
    CatchesUp
