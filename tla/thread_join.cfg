SPECIFICATION FairSpec
CONSTANTS
    CondvarSlots = {}
    MutexSlots = {}
    GuardSlots = {}
    HandleSlots = {jh1, jh2}
    DropSlots = {}
    ProgramFunctions <- JoinProgram
    PassThrough = {}
    MaxPassThrough = 0
    Kinds <- WithGotoAndAssign
    Cleanups <- NoCleanup
    MaxThreads = 2
    MaxTerminators <- JoinTerminators
    MaxWaitCalls = 0
    MaxAssignments = 1
    MaxTargets = 1
    PlayTokenGame = TRUE
PROPERTY JoinWaitsForThread
PROPERTY JoinedProgramEnds
CHECK_DEADLOCK FALSE
