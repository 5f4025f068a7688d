\* Refused messages against udp_exchange.hpp:225.
SPECIFICATION Spec
CONSTANTS
    Var = {"a", "b", "c"}
    Value = {0, 1}
    V0 = 0
    Buf = {1, 2}
    VarsOf <- MCVarsOf
    Known = {1, 2}
    Unsendable <- MCUnsendable
    Ill = {}
    Uncovered = {}
    Alike <- MCAlike
    W = 2
    MaxChanges = 2
    MaxFaults = 1
CHECK_DEADLOCK FALSE
PROPERTIES
    OnlyRepeatsRefused
