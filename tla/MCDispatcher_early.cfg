\* The number of signals against loader/task.hpp.
SPECIFICATION FairSpec
CONSTANTS
    Client = {c1}
    Word = {"halt", "set"}
    Halt = "halt"
    SigCount = 2
    Garbage <- MCGarbage
    Pipelined = FALSE
    MaxChunk = 2
    MaxSent = 0
    MaxSignals = 2
CHECK_DEADLOCK FALSE
PROPERTIES
    SignalsStop
