\* The order of the calls against kernel/README.
SPECIFICATION Spec
CONSTANTS
    Block <- MCBlock
    Root = "main"
    NoBlock = "none"
    Parent <- MCParent
    Anc <- MCAnc
    Subprog <- MCSubprog
    Owner <- MCOwner
    Var <- MCVar
    VarOf <- MCVarOf
    VarRank <- MCVarRank
    Value <- MCValue
    Set <- MCSet
    InitVal <- MCInit
    Use <- MCUse
    Res <- MCRes
    OnSetup <- MCOn
    OffSetup <- MCOff
    Cond <- MCCond
    Priority <- MCPriority
    NameRank <- MCNameRank
    Period <- MCPeriod
    TouchOffset = 0
    Outputs <- MCOutputs
    MayThrow <- MCNobody
    MayMistype <- MCNobody
    MayDie <- MCNobody
    WithClass <- MCNobody
    Batch = 1
    MaxSteps = 4
    MaxTime = 4
    MaxInstr = 0
CHECK_DEADLOCK FALSE
PROPERTIES
    PriorityDescends
