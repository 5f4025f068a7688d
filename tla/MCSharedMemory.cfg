\* A writer and a reader, two changes of the values, one crash.
SPECIFICATION FairSpec
CONSTANTS
    Proc = {"writer", "reader"}
    Nobody = Nobody
    NoMemory = NoMemory
    Layout <- MCLayout
    Value = {0, 1, 2}
    SetValues = {1, 2}
    ReadCond <- MCReadCond
    WriteCond <- MCWriteCond
    Unreachable = {"z"}
    Small = {"s"}
    MaxMemory = 2
    MaxChanges = 2
    MaxCrashes = 1
CHECK_DEADLOCK FALSE
INVARIANTS
    HeldByInside
    OneMemory
    ReadTogether
PROPERTIES
    LastValueArrives
