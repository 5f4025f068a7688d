\* Two changes and two mishaps of any kind.
SPECIFICATION FairSpec
CONSTANTS
    Var = {"a", "b", "c"}
    Value = {0, 1, 2}
    V0 = 0
    Buf = {1, 2}
    VarsOf <- MCVarsOf
    Known = {1, 2}
    Unsendable <- MCUnsendable
    Ill = {}
    Uncovered = {"c"}
    Alike <- MCAlike
    W = 2
    MaxChanges = 2
    MaxFaults = 2
CHECK_DEADLOCK FALSE
INVARIANTS
    InOrderOnce
    ValuesWereHad
    NoneForgotten
PROPERTIES
    Converges
