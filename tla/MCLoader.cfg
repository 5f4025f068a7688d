SPECIFICATION FairSpec
CONSTANTS
    Block = {"main", "a", "b", "c"}
    Root = "main"
    NoBlock = "none"
    Name = {"x", "y", "z"}
    Type = {"t1", "t2"}
    NoType = "none"
    Parent <- MCParent
    Docs <- MCDocs
    Broken <- MCBroken
INVARIANTS
    Wired
    OperandsExist
    OnlySoundLoads
PROPERTY
    SoundLoads
CHECK_DEADLOCK FALSE
