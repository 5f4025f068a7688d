\* Power, periods, locks, setups and everything that may fail inside a step.
SPECIFICATION FairSpec
CONSTANTS
    Block <- MCBlock
    Root = "main"
    NoBlock = "none"
    Parent <- MCParent
    Anc <- MCAnc
    Subprog <- MCSubprog
    Owner <- MCOwner
    Var <- MCVar
    VarOf <- MCVarOf
    VarRank <- MCVarRank
    Value <- MCValue
    Set <- MCSet
    InitVal <- MCInit
    Use <- MCUse
    Res <- MCRes
    OnSetup <- MCOn
    OffSetup <- MCOff
    Cond <- MCCond
    Priority <- MCPriority
    NameRank <- MCNameRank
    Period <- MCPeriod
    TouchOffset = 1
    Outputs <- MCOutputs
    MayThrow <- MCThrowers
    MayMistype <- MCMistypers
    MayDie <- MCDiers
    WithClass <- MCWithClass
    Batch = 1
    MaxSteps = 4
    MaxTime = 5
    MaxInstr = 1
CHECK_DEADLOCK FALSE
INVARIANTS
    PowerReaches
    CalledOncePerStep
    RestAfterPowerOn
    PlanBound
    NoFailureLost
PROPERTIES
    LockedKept
    PowerOffResets
    IdleBlocksInert
    StepCompletes
