\* A value that does not fit against udp_exchange.hpp:267.
SPECIFICATION Spec
CONSTANTS
    Var = {"a", "b", "c"}
    Value = {0, 1}
    V0 = 0
    Buf = {1, 2}
    VarsOf <- MCVarsOf
    Known = {1, 2}
    Unsendable <- MCUnsendable
    Ill = {"b"}
    Uncovered = {}
    Alike <- MCAlike
    W = 2
    MaxChanges = 2
    MaxFaults = 0
CHECK_DEADLOCK FALSE
INVARIANTS
    WrongValueRejectsBuffer
