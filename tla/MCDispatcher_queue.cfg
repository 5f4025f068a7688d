\* Instructions, and signals at any time; clients do not wait for the answer.
SPECIFICATION FairSpec
CONSTANTS
    Client = {c1, c2}
    Word = {"halt", "set"}
    Halt = "halt"
    SigCount = 2
    Garbage <- MCGarbage
    Pipelined = TRUE
    MaxChunk = 2
    MaxSent = 2
    MaxSignals = 3
CHECK_DEADLOCK FALSE
INVARIANTS
    NothingLostOrDoubled
    StopWithinOneStep
    NoEarlyStop
PROPERTIES
    HaltStops
    AcceptedAreRun
    SignalsInRunStop
    ImplementsMailbox
